---- MODULE Spec2Model ----
(***************************************************************************)
(* Model of the plot consolidation / summary core of facette               *)
(* (pkg/plot/func.go, pkg/plot/plot.go), of the graph plots handlers of    *)
(* the server (serveGraphPlots, plotHandle), of the time window of a plots *)
(* request (parsePlotRequest) and of the RRD and InfluxDB data paths.      *)
(*                                                                         *)
(* Times are integers (one unit = one nanosecond tick of time.Time /       *)
(* time.Duration).  Plot values are float64 in the source; here a value is *)
(* either NaN or an exact rational kept in lowest terms, so IEEE rounding  *)
(* of finite values is not represented while NaN propagation and NaN       *)
(* comparisons are.                                                        *)
(***************************************************************************)
EXTENDS Integers, Sequences, FiniteSets, TLC

VARIABLES pc, plotReq, graph, plotQuery, seriesList, startTime, endTime, sample,
          consolidationType, operType, series, percentiles, result

vars == <<pc, plotReq, graph, plotQuery, seriesList, startTime, endTime, sample,
          consolidationType, operType, series, percentiles, result>>

(***************************************************************************)
(* Bounds of the model.                                                    *)
(***************************************************************************)
MaxPlots == 2
MaxBucket == 3
MaxLen == 3
MaxTime == 3
MaxSample == 3

(***************************************************************************)
(* pkg/plot/func.go: consolidation and operator types (iota constants).    *)
(***************************************************************************)
ConsolidateAverage == 1
ConsolidateLast == 2
ConsolidateMax == 3
ConsolidateMin == 4
ConsolidateSum == 5
OperTypeNone == 1
OperTypeAverage == 2
OperTypeSum == 3

ConsolidationTypes ==
    {ConsolidateAverage, ConsolidateLast, ConsolidateMax, ConsolidateMin, ConsolidateSum}

(***************************************************************************)
(* Value (plot.go: type Value float64).                                    *)
(***************************************************************************)
Abs(x) == IF x < 0 THEN -x ELSE x

RECURSIVE GCD(_, _)
GCD(a, b) == IF b = 0 THEN a ELSE GCD(b, a % b)

\* Go integer division truncates toward zero (time.Duration is an int64).
TruncDiv(a, b) ==
    IF (a >= 0) = (b > 0) THEN Abs(a) \div Abs(b) ELSE -(Abs(a) \div Abs(b))

NaN == [nan |-> TRUE, num |-> 0, den |-> 1]

\* The rational n/d (d # 0) in lowest terms with a positive denominator.
Rat(n, d) ==
    LET g == GCD(Abs(n), Abs(d))
        s == IF d < 0 THEN -1 ELSE 1
    IN  [nan |-> FALSE, num |-> s * (n \div g), den |-> (s * d) \div g]

Real(n) == Rat(n, 1)

IsNaN(v) == v.nan

\* float64 +, *, / : NaN in, NaN out; x/0 for a finite x is +-Inf or NaN,
\* only 0/0 (NaN) arises in the modelled code (total / 0 with total = 0).
ValueAdd(a, b) ==
    IF a.nan \/ b.nan THEN NaN ELSE Rat(a.num * b.den + b.num * a.den, a.den * b.den)

ValueSub(a, b) ==
    IF a.nan \/ b.nan THEN NaN ELSE Rat(a.num * b.den - b.num * a.den, a.den * b.den)

ValueMul(a, b) ==
    IF a.nan \/ b.nan THEN NaN ELSE Rat(a.num * b.num, a.den * b.den)

ValueDivInt(a, k) ==
    IF a.nan \/ k = 0 THEN NaN ELSE Rat(a.num, a.den * k)

\* float64 comparisons: every ordered comparison with a NaN operand is false.
ValueLess(a, b) == ~a.nan /\ ~b.nan /\ a.num * b.den < b.num * a.den

ValueGreater(a, b) == ValueLess(b, a)

ValueLeq(a, b) == ~a.nan /\ ~b.nan /\ a.num * b.den <= b.num * a.den

(***************************************************************************)
(* Plot, Series, plotBucket.                                               *)
(***************************************************************************)
Plot(t, v) == [Time |-> t, Value |-> v]

EmptySummary == [k \in {} |-> NaN]

\* The nil map of a zero-value Series (reads find no key, a write panics),
\* told apart from every allocated map by its single reserved key.
NilMap == [k \in {"<nil>"} |-> NaN]

\* Series{}
ZeroSeries == [Name |-> "", Plots |-> <<>>, Summary |-> NilMap]

Series(name, plots) == [Name |-> name, Plots |-> plots, Summary |-> EmptySummary]

plotBucket(t, plots) == [startTime |-> t, plots |-> plots]

RECURSIVE SumValues(_)
SumValues(plots) ==
    IF plots = <<>> THEN Real(0)
    ELSE ValueAdd(SumValues(SubSeq(plots, 1, Len(plots) - 1)), plots[Len(plots)].Value)

(***************************************************************************)
(* func.go: plotBucket.Consolidate.                                        *)
(***************************************************************************)
\* Variant of MaxPlot that never replaces a NaN running plot.
RECURSIVE MaxPlotKeepNaN(_, _)
MaxPlotKeepNaN(plots, init) ==
    IF plots = <<>> THEN init
    ELSE LET acc == MaxPlotKeepNaN(SubSeq(plots, 1, Len(plots) - 1), init)
             plot == plots[Len(plots)]
         IN  IF ~IsNaN(plot.Value) /\ ValueGreater(plot.Value, acc.Value)
             THEN plot ELSE acc

\* case ConsolidateMax: the running plot is replaced when the member is a
\* greater real value, or whenever the running value is still NaN.
RECURSIVE MaxPlot(_, _)
MaxPlot(plots, init) ==
    IF plots = <<>> THEN init
    ELSE LET acc == MaxPlot(SubSeq(plots, 1, Len(plots) - 1), init)
             plot == plots[Len(plots)]
         IN  IF (~IsNaN(plot.Value) /\ ValueGreater(plot.Value, acc.Value)) \/ IsNaN(acc.Value)
             THEN plot ELSE acc

\* case ConsolidateMin.
RECURSIVE MinPlot(_, _)
MinPlot(plots, init) ==
    IF plots = <<>> THEN init
    ELSE LET acc == MinPlot(SubSeq(plots, 1, Len(plots) - 1), init)
             plot == plots[Len(plots)]
         IN  IF (~IsNaN(plot.Value) /\ ValueLess(plot.Value, acc.Value)) \/ IsNaN(acc.Value)
             THEN plot ELSE acc

\* Variant of AveragePlot that stamps the average with the last member's time.
AveragePlotLastTime(bucket) ==
    [Value |-> ValueDivInt(SumValues(bucket.plots), Len(bucket.plots)),
     Time |-> bucket.plots[Len(bucket.plots)].Time]

\* case ConsolidateAverage: every member is added and counted, NaN or not.
AveragePlot(bucket) ==
    LET bucketCount == Len(bucket.plots)
        sum == SumValues(bucket.plots)
        sumCount == bucketCount
    IN  [Value |-> IF sumCount > 0 THEN ValueDivInt(sum, sumCount) ELSE NaN,
         Time |-> IF bucketCount = 1 THEN bucket.plots[1].Time
                  ELSE bucket.plots[1].Time
                       + TruncDiv(bucket.plots[bucketCount].Time - bucket.plots[1].Time, 2)]

\* Variant of Consolidate whose initial plot has value zero instead of NaN.
ConsolidateZero(bucket, type) ==
    LET consolidatedPlot == Plot(bucket.startTime, Real(0))
        bucketCount == Len(bucket.plots)
    IN  IF bucketCount = 0 THEN consolidatedPlot
        ELSE CASE type = ConsolidateAverage -> AveragePlot(bucket)
               [] type = ConsolidateSum ->
                    Plot(bucket.plots[bucketCount].Time, SumValues(bucket.plots))
               [] type = ConsolidateLast -> bucket.plots[bucketCount]
               [] type = ConsolidateMax -> MaxPlot(bucket.plots, consolidatedPlot)
               [] type = ConsolidateMin -> MinPlot(bucket.plots, consolidatedPlot)
               [] OTHER -> consolidatedPlot

Consolidate(bucket, type) ==
    LET consolidatedPlot == Plot(bucket.startTime, NaN)
        bucketCount == Len(bucket.plots)
    IN  IF bucketCount = 0 THEN consolidatedPlot
        ELSE CASE type = ConsolidateAverage -> AveragePlot(bucket)
               [] type = ConsolidateSum ->
                    Plot(bucket.plots[bucketCount].Time, SumValues(bucket.plots))
               [] type = ConsolidateLast -> bucket.plots[bucketCount]
               [] type = ConsolidateMax -> MaxPlot(bucket.plots, consolidatedPlot)
               [] type = ConsolidateMin -> MinPlot(bucket.plots, consolidatedPlot)
               [] OTHER -> consolidatedPlot

(***************************************************************************)
(* func.go: ConsolidateSeries.                                             *)
(***************************************************************************)
\* int64 range, scaled to the model checker's integers; Int64Wrap is the
\* two's complement wrap-around of int64 arithmetic.
MinInt64 == -(2^29)
MaxInt64 == 2^29 - 1
Int64Wrap(x) == ((x - MinInt64) % (2^30)) + MinInt64

\* int64(f) of a float64 the type cannot represent (+Inf, NaN) is
\* implementation-dependent in Go: the platforms produce the smallest int64,
\* the largest int64 or zero.
ImplementationDependent == {MinInt64, 0, MaxInt64}

RECURSIVE MaxLength(_)
MaxLength(list) ==
    IF list = <<>> THEN 0
    ELSE LET rest == MaxLength(Tail(list))
             seriesLength == Len(Head(list).Plots)
         IN  IF seriesLength > rest THEN seriesLength ELSE rest

\* line 131: step := endTime.Sub(startTime) / time.Duration(sample)
Step(start, end, smpl) == TruncDiv(end - start, smpl)

\* line 146: plot.Time.Before(startTime) || plot.Time.After(endTime)
Skipped(plot, start, end) == plot.Time < start \/ plot.Time > end

\* Variant of PlotIndex that rounds the quotient to the nearest bucket.
PlotIndexRounded(plot, start, step, conv) ==
    IF step = 0 THEN Int64Wrap(conv - 1)
    ELSE TruncDiv(2 * (plot.Time - start) + step, 2 * step)

\* line 150: int64(float64(plot.Time - startTime)/float64(step) + 1) - 1;
\* with step = 0 the quotient is +Inf or NaN and the conversion yields conv.
PlotIndex(plot, start, step, conv) ==
    IF step = 0 THEN Int64Wrap(conv - 1)
    ELSE TruncDiv((plot.Time - start) + step, step) - 1

\* The plots of one series that pass both `continue` tests of the loop.
Propagated(plots, start, end, step, smpl, conv) ==
    SelectSeq(plots, LAMBDA plot :
        ~Skipped(plot, start, end) /\ PlotIndex(plot, start, step, conv) < smpl)

\* Variant of SeriesBuckets whose buckets all start at the window start.
SeriesBucketsFromStart(plots, start, end, step, smpl, conv) ==
    [b \in 1..smpl |->
        plotBucket(start,
                   SelectSeq(Propagated(plots, start, end, step, smpl, conv),
                             LAMBDA plot : PlotIndex(plot, start, step, conv) = b - 1))]

\* buckets[seriesIndex] after the propagation loop (0-based stepIndex i is
\* kept at position i + 1).
SeriesBuckets(plots, start, end, step, smpl, conv) ==
    [b \in 1..smpl |->
        plotBucket(start + (b - 1) * step,
                   SelectSeq(Propagated(plots, start, end, step, smpl, conv),
                             LAMBDA plot : PlotIndex(plot, start, step, conv) = b - 1))]

\* buckets[seriesIndex][plotIndex] with a negative plotIndex: index out of range.
IndexPanics(plots, start, end, step, smpl, conv) ==
    \E k \in 1..Len(plots) :
        /\ ~Skipped(plots[k], start, end)
        /\ PlotIndex(plots[k], start, step, conv) < 0

\* Variant of EffectiveSample that never overrides the requested sample.
EffectiveSampleRequested(list, smpl) == smpl

\* Override sample to max series length if smaller than requested (line 127).
EffectiveSample(list, smpl) ==
    LET maxLength == MaxLength(list)
    IN  IF maxLength > 0 /\ maxLength < smpl THEN maxLength ELSE smpl

ErrorResult(msg) ==
    [status |-> "error", error |-> msg, series |-> <<>>, buckets |-> <<>>, sample |-> 0, step |-> 0]

PanicResult(msg) ==
    [status |-> "panic", error |-> msg, series |-> <<>>, buckets |-> <<>>, sample |-> 0, step |-> 0]

ConsolidateSeries(list, start, end, smpl, type, conv) ==
    IF smpl = 0 THEN ErrorResult("sample must be greater than zero")
    ELSE IF Len(list) = 0 THEN ErrorResult("no series provided")
    ELSE
      LET eff == EffectiveSample(list, smpl)
          step == Step(start, end, eff)
          bk == [i \in 1..Len(list) |->
                    SeriesBuckets(list[i].Plots, start, end, step, eff, conv)]
      IN  IF eff < 0 THEN PanicResult("makeslice: len out of range")
          ELSE IF \E i \in 1..Len(list) :
                      IndexPanics(list[i].Plots, start, end, step, eff, conv)
          THEN PanicResult("index out of range")
          ELSE [status |-> "ok", error |-> "",
                series |-> [i \in 1..Len(list) |->
                              Series("", [b \in 1..eff |-> Consolidate(bk[i][b], type)])],
                buckets |-> bk, sample |-> eff, step |-> step]

(***************************************************************************)
(* func.go: operSeries, AverageSeries, SumSeries.                          *)
(***************************************************************************)
\* The accumulation of lines 200-209 over the first n series at plotIndex i:
\* the running value (zero to begin with) and sumCount.
RECURSIVE Accumulate(_, _, _)
Accumulate(list, n, i) ==
    IF n = 0 THEN [value |-> Real(0), sumCount |-> 0]
    ELSE LET acc == Accumulate(list, n - 1, i)
             v == list[n].Plots[i].Value
         IN  IF IsNaN(v) THEN acc
             ELSE [value |-> ValueAdd(acc.value, v), sumCount |-> acc.sumCount + 1]

\* Variant of OperValue that divides by the number of series and keeps the
\* zero accumulator when nothing contributed.
OperValueAllSeries(list, i, type) ==
    LET acc == Accumulate(list, Len(list), i)
    IN  IF type = OperTypeAverage THEN ValueDivInt(acc.value, Len(list)) ELSE acc.value

\* lines 211-215
OperValue(list, i, type) ==
    LET acc == Accumulate(list, Len(list), i)
    IN  IF acc.sumCount = 0 THEN NaN
        ELSE IF type = OperTypeAverage THEN ValueDivInt(acc.value, acc.sumCount)
        ELSE acc.value

operSeries(list, type) ==
    IF Len(list) = 0
    THEN [status |-> "error", error |-> "no series provided", series |-> Series("", <<>>)]
    ELSE LET plotsCount == Len(list[1].Plots)
         IN  IF \E n \in 1..Len(list) : Len(list[n].Plots) < plotsCount
             THEN [status |-> "panic", error |-> "index out of range",
                   series |-> Series("", <<>>)]
             ELSE [status |-> "ok", error |-> "",
                   series |-> Series("", [i \in 1..plotsCount |->
                                  Plot(list[1].Plots[i].Time, OperValue(list, i, type))])]

AverageSeries(list) == operSeries(list, OperTypeAverage)

SumSeries(list) == operSeries(list, OperTypeSum)

(***************************************************************************)
(* plot.go: Series.Summarize, Series.Percentiles.                          *)
(***************************************************************************)
\* series.Summary[key] = value
Put(summary, key, value) ==
    [k \in DOMAIN summary \cup {key} |-> IF k = key THEN value ELSE summary[k]]

RECURSIVE Pow10(_)
Pow10(k) == IF k = 0 THEN 1 ELSE 10 * Pow10(k - 1)

RECURSIVE Digits(_, _)
Digits(n, k) == IF k = 0 THEN "" ELSE Digits(n \div 10, k - 1) \o ToString(n % 10)

\* fmt.Sprintf("%gth", percentile) for a percentile >= 0 with at most four
\* decimals: %g prints the shortest decimal form, without trailing zeros and
\* without a decimal point when the value is integral.
PercentileString(p) ==
    IF p.den = 1 THEN ToString(p.num) \o "th"
    ELSE LET k == CHOOSE j \in 1..4 :
                      /\ (p.num * Pow10(j)) % p.den = 0
                      /\ \A h \in 1..(j - 1) : (p.num * Pow10(h)) % p.den # 0
             scaled == (p.num * Pow10(k)) \div p.den
         IN  ToString(scaled \div Pow10(k)) \o "." \o Digits(scaled % Pow10(k), k) \o "th"

\* The non-NaN values of the plots, in plot order (lines 194-198).
RECURSIVE ValidValues(_)
ValidValues(plots) ==
    IF plots = <<>> THEN <<>>
    ELSE LET v == Head(plots).Value
         IN  IF IsNaN(v) THEN ValidValues(Tail(plots)) ELSE <<v>> \o ValidValues(Tail(plots))

\* sort.Float64s
RECURSIVE SortValues(_)
SortValues(set) ==
    IF set = <<>> THEN <<>>
    ELSE LET m == CHOOSE k \in DOMAIN set : \A j \in DOMAIN set : ValueLeq(set[k], set[j])
         IN  <<set[m]>> \o SortValues(SubSeq(set, 1, m - 1) \o SubSeq(set, m + 1, Len(set)))

\* The rank taken over setSize instead of setSize + 1.
RankOverSetSize(p, setSize) == Rat(p.num * setSize, p.den * 100)

\* line 214: rank := (percentile / 100) * float64(setSize+1)
Rank(p, setSize) == Rat(p.num * (setSize + 1), p.den * 100)

\* One iteration of the loop of lines 211-227 over the sorted set (set[k]
\* of the source is set[k + 1] here): the value stored, or a panic when
\* set[rankInt-1] or set[rankInt] is out of range.
PercentileValue(set, p) ==
    LET setSize == Len(set)
        rank == Rank(p, setSize)
        rankInt == TruncDiv(rank.num, rank.den)
        rankFrac == ValueSub(rank, Real(rankInt))
    IN  IF ValueLeq(rank, Real(0)) THEN [panic |-> FALSE, value |-> set[1]]
        ELSE IF ValueLeq(Real(setSize), ValueSub(rank, Real(1)))
        THEN [panic |-> FALSE, value |-> set[setSize]]
        ELSE IF rankInt - 1 < 0 \/ rankInt >= setSize
        THEN [panic |-> TRUE, value |-> NaN]
        ELSE [panic |-> FALSE,
              value |-> ValueAdd(set[rankInt],
                                 ValueMul(rankFrac, ValueSub(set[rankInt + 1], set[rankInt])))]

\* The loop over the first n percentiles: the summary written so far and
\* whether an iteration panicked (which ends the loop).
RECURSIVE PercentileLoop(_, _, _, _)
PercentileLoop(summary, set, pcts, n) ==
    IF n = 0 THEN [status |-> "ok", Summary |-> summary]
    ELSE LET before == PercentileLoop(summary, set, pcts, n - 1)
             pv == PercentileValue(set, pcts[n])
         IN  IF before.status # "ok" THEN before
             ELSE IF pv.panic THEN [status |-> "panic", Summary |-> before.Summary]
             ELSE [status |-> "ok",
                   Summary |-> Put(before.Summary, PercentileString(pcts[n]), pv.value)]

\* Series.Percentiles: the status of the call and the Summary map after it
\* (the map is shared with the caller, writes made before a panic remain).
Percentiles(s, pcts) ==
    LET set == ValidValues(s.Plots)
    IN  IF Len(pcts) = 0 THEN [status |-> "ok", Summary |-> s.Summary]
        ELSE IF Len(set) = 0 THEN [status |-> "ok", Summary |-> s.Summary]
        ELSE IF s.Summary = NilMap THEN [status |-> "panic", Summary |-> NilMap]
        ELSE PercentileLoop(s.Summary, SortValues(set), pcts, Len(pcts))

\* min after the first n plots (line 167), starting from Plots[0].Value.
RECURSIVE SummaryMin(_, _)
SummaryMin(plots, n) ==
    IF n = 0 THEN (IF Len(plots) > 0 THEN plots[1].Value ELSE Real(0))
    ELSE LET min == SummaryMin(plots, n - 1)
             v == plots[n].Value
         IN  IF (~IsNaN(v) /\ ValueLess(v, min)) \/ IsNaN(min) THEN v ELSE min

\* max after the first n plots (line 171), starting from the zero Value.
RECURSIVE SummaryMax(_, _)
SummaryMax(plots, n) ==
    IF n = 0 THEN Real(0)
    ELSE LET max == SummaryMax(plots, n - 1)
             v == plots[n].Value
         IN  IF ValueGreater(v, max) THEN v ELSE max

\* total and nValidPlots (lines 175-178).
RECURSIVE SummaryTotal(_)
SummaryTotal(set) == IF set = <<>> THEN Real(0) ELSE ValueAdd(Head(set), SummaryTotal(Tail(set)))

Summarize(s, pcts) ==
    LET nPlots == Len(s.Plots)
        set == ValidValues(s.Plots)
        s0 == IF nPlots > 0 THEN Put(s.Summary, "last", s.Plots[nPlots].Value) ELSE s.Summary
        s1 == Put(s0, "min", SummaryMin(s.Plots, nPlots))
        s2 == Put(s1, "max", SummaryMax(s.Plots, nPlots))
        s3 == Put(s2, "avg", ValueDivInt(SummaryTotal(set), Len(set)))
    IN  IF s.Summary = NilMap THEN [status |-> "panic", Summary |-> NilMap]
        ELSE IF Len(pcts) > 0 THEN Percentiles([s EXCEPT !.Summary = s3], pcts)
        ELSE [status |-> "ok", Summary |-> s3]

(***************************************************************************)
(* RRD backend: rrdSetGraph.                                               *)
(***************************************************************************)
\* fmt.Sprintf("%.2fth", percentile) for a percentile >= 0: two decimals,
\* rounded to nearest, an exact tie to the even digit.
TwoDecimalString(p) ==
    LET n == p.num * 100
        floor == n \div p.den
        rem == n % p.den
        scaled == IF 2 * rem > p.den \/ (2 * rem = p.den /\ floor % 2 = 1)
                  THEN floor + 1 ELSE floor
    IN  ToString(scaled \div 100) \o "." \o Digits(scaled % 100, 2) \o "th"

\* The key of the Print statement of one percentile (lines 394-400): "%.0fth"
\* when percentile - float64(int(percentile)) is zero, "%.2fth" otherwise.
rrdPercentileKey(p) ==
    IF ValueSub(p, Real(TruncDiv(p.num, p.den))) # Real(0)
    THEN TwoDecimalString(p)
    ELSE ToString(p.num) \o "th"

\* rrdSetGraph: the info keys of the Print statements it adds for one item,
\* in order (rrdParseInfo stores each printed value under its key).
rrdSetGraph(pcts) ==
    <<"min", "avg", "max", "last">> \o [n \in DOMAIN pcts |-> rrdPercentileKey(pcts[n])]

(***************************************************************************)
(* plot.go: Series.Scale, Series.Downsample.                               *)
(***************************************************************************)
\* Series.Scale: the plots after the in-place multiplication (lines 144-150).
Scale(plots, factor) ==
    [i \in DOMAIN plots |->
        IF IsNaN(plots[i].Value) THEN plots[i]
        ELSE Plot(plots[i].Time, ValueMul(plots[i].Value, factor))]

\* Series.Downsample (lines 138-141): the error of ConsolidateSeries is
\* dropped and consolidatedSeries[0] is read, which panics on the nil slice
\* returned with an error.
Downsample(s, start, end, smpl, type, conv) ==
    LET r == ConsolidateSeries(<<s>>, start, end, smpl, type, conv)
    IN  IF r.status = "ok" THEN [status |-> "ok", series |-> r.series[1]]
        ELSE [status |-> "panic", series |-> s]

(***************************************************************************)
(* Server: prepareProviderQueries and serveGraphPlots.                     *)
(*                                                                         *)
(* A graph is a sequence of groups, a group a type and a sequence of       *)
(* series references.  A reference names its origin and carries the        *)
(* outcome of its source/metric expansion: one flag per expanded           *)
(* <source, metric> pair, TRUE when Catalog.GetMetric finds the metric,    *)
(* and whether the pairs come from a metric group (MetricGroup) or from a  *)
(* source group or a plain source and metric.                              *)
(* The metric found for pair j of the k-th reference of the graph is       *)
(* [ref |-> k, idx |-> j]; it is owned by the connector of its origin.     *)
(***************************************************************************)
CatalogOrigins == {"o1", "o2"}

\* metric.Connector.GetName() of the metrics of an origin
OriginConnector(origin) == IF origin = "o1" THEN "c1" ELSE "c2"

SeriesRef(name, origin, metrics, metricGroup, scale) ==
    [Name |-> name, Origin |-> origin, Metrics |-> metrics, MetricGroup |-> metricGroup,
     Scale |-> scale]

OperGroup(name, type, refs) == [Name |-> name, Type |-> type, Series |-> refs, Scale |-> 0]

\* The series references of the groups, in declaration order.
RECURSIVE GraphSeries(_)
GraphSeries(groups) ==
    IF groups = <<>> THEN <<>> ELSE Head(groups).Series \o GraphSeries(Tail(groups))

\* The indices of the metrics found for a reference, ascending.
RECURSIVE FoundMetrics(_, _)
FoundMetrics(flags, n) ==
    IF n = 0 THEN <<>>
    ELSE FoundMetrics(flags, n - 1) \o (IF flags[n] THEN <<n>> ELSE <<>>)

NoQueries == [c \in {} |-> [Metrics |-> <<>>, queryMap |-> <<>>]]

\* Variant of AppendMetrics that starts the provider's query anew for every
\* reference.
AppendMetricsNewQuery(queries, ref, n) ==
    LET found == FoundMetrics(ref.Metrics, Len(ref.Metrics))
    IN  IF found = <<>> THEN queries
        ELSE Put(queries, OriginConnector(ref.Origin),
                 [Metrics |-> [i \in DOMAIN found |-> [ref |-> n, idx |-> found[i]]],
                  queryMap |-> [i \in DOMAIN found |-> ref.Name]])

\* lines 383-425 for the n-th reference of the graph: a metric that is not
\* found is skipped (line 391), a metric found is appended to the query of
\* its provider, created if needed, and the name of its reference to the
\* queryMap of that query.
AppendMetrics(queries, ref, n) ==
    LET providerName == OriginConnector(ref.Origin)
        found == FoundMetrics(ref.Metrics, Len(ref.Metrics))
        old == IF providerName \in DOMAIN queries THEN queries[providerName]
               ELSE [Metrics |-> <<>>, queryMap |-> <<>>]
        new == [Metrics |-> old.Metrics \o [i \in DOMAIN found |-> [ref |-> n, idx |-> found[i]]],
                queryMap |-> old.queryMap \o [i \in DOMAIN found |-> ref.Name]]
    IN  IF found = <<>> THEN queries ELSE Put(queries, providerName, new)

\* prepareProviderQueries after the first n references of the graph: an
\* unknown origin returns an error at once (line 357).
RECURSIVE PrepareLoop(_, _)
PrepareLoop(refs, n) ==
    IF n = 0 THEN [status |-> "ok", queries |-> NoQueries]
    ELSE LET before == PrepareLoop(refs, n - 1)
         IN  IF before.status # "ok" THEN before
             ELSE IF refs[n].Origin \notin CatalogOrigins
             THEN [status |-> "error", queries |-> NoQueries]
             ELSE [status |-> "ok", queries |-> AppendMetrics(before.queries, refs[n], n)]

prepareProviderQueries(g) == PrepareLoop(GraphSeries(g), Len(GraphSeries(g)))

\* connector.GetPlots: what a connector holds for a metric, and the answers
\* it may give to a query: an error, or the series of the query's metrics in
\* query order or in the reverse order, all of them, all but the last, or
\* with one series more than asked.
MetricName(m) == "m" \o ToString(m.ref) \o "." \o ToString(m.idx)

RawSeries(m) ==
    [Name |-> MetricName(m),
     Plots |-> <<Plot(0, Real(10 * m.ref + m.idx)), Plot(1, NaN), Plot(2, Real(1))>>,
     Summary |-> EmptySummary]

Reverse(seq) == [i \in DOMAIN seq |-> seq[Len(seq) + 1 - i]]

GetPlots(query) ==
    LET all == [i \in DOMAIN query.Metrics |-> RawSeries(query.Metrics[i])]
        lists == {all, Reverse(all), SubSeq(all, 1, Len(all) - 1),
                  all \o <<RawSeries([ref |-> 0, idx |-> 0])>>}
    IN  {[err |-> TRUE, plots |-> <<>>]} \cup {[err |-> FALSE, plots |-> l] : l \in lists}

\* lines 248-250 for one answer: plotSeries[queryMap[plotsIndex]] = plotsItem
\* for the first n series of the answer; queryMap[plotsIndex] panics when the
\* answer is longer than queryMap.  writes lists the assignments made.
RECURSIVE StoreLoop(_, _, _, _)
StoreLoop(state, queryMap, plots, n) ==
    IF n = 0 THEN state
    ELSE LET before == StoreLoop(state, queryMap, plots, n - 1)
         IN  IF before.status # "ok" THEN before
             ELSE IF n > Len(queryMap) THEN [before EXCEPT !.status = "panic"]
             ELSE [before EXCEPT
                      !.plotSeries = Put(@, queryMap[n], plots[n]),
                      !.writes = Append(@, [key |-> queryMap[n], series |-> plots[n]])]

\* lines 242-251: the providers are visited in the iteration order `order`
\* of the providerQueries map, provider c answering answers[c]; an error is
\* logged only.  calls lists the calls made.
RECURSIVE ExecuteLoop(_, _, _, _)
ExecuteLoop(queries, order, answers, n) ==
    IF n = 0
    THEN [status |-> "ok", plotSeries |-> [k \in {} |-> ZeroSeries], writes |-> <<>>,
          calls |-> <<>>]
    ELSE LET before == ExecuteLoop(queries, order, answers, n - 1)
             c == order[n]
             called == [before EXCEPT
                           !.calls = Append(@, [connector |-> c, query |-> queries[c],
                                                answer |-> answers[c]])]
         IN  IF before.status # "ok" THEN before
             ELSE StoreLoop(called, queries[c].queryMap, answers[c].plots,
                            Len(answers[c].plots))

\* lines 274-286 for the first n references of a group: the plots of a
\* series found in plotSeries are scaled in place; groupSeries[seriesIndex]
\* shares its Plots array and its Summary map with plotSeries[name].
RECURSIVE ScaleLoop(_, _, _)
ScaleLoop(plotSeries, refs, n) ==
    IF n = 0 THEN plotSeries
    ELSE LET before == ScaleLoop(plotSeries, refs, n - 1)
             name == refs[n].Name
         IN  IF name \in DOMAIN before /\ refs[n].Scale # 0
             THEN [before EXCEPT ![name].Plots = Scale(@, Real(refs[n].Scale))]
             ELSE before

\* groupSeries after lines 274-286: the series found, the zero Series for a
\* name without plots.
GroupSeries(plotSeries, refs) ==
    [i \in DOMAIN refs |->
        IF refs[i].Name \in DOMAIN plotSeries THEN plotSeries[refs[i].Name] ELSE ZeroSeries]

\* lines 331-340 for the first n series of a group of type NONE: Summarize
\* writes into the Summary map shared with plotSeries; the response entry
\* keeps the name of the series it presents (its Plots and Summary are the
\* shared ones, `alias` names them).
RECURSIVE SummarizeLoop(_, _, _, _, _)
SummarizeLoop(state, refs, pcts, g, n) ==
    IF n = 0 THEN state
    ELSE LET before == SummarizeLoop(state, refs, pcts, g, n - 1)
             seriesItem == GroupSeries(before.plotSeries, refs)[n]
             r == Summarize(seriesItem, pcts)
         IN  IF before.status # "ok" THEN before
             ELSE IF r.status # "ok" THEN [before EXCEPT !.status = "panic"]
             ELSE [before EXCEPT
                      !.plotSeries[refs[n].Name].Summary = r.Summary,
                      !.response = Append(@, [Name |-> seriesItem.Name, alias |-> refs[n].Name,
                                              Plots |-> <<>>, Summary |-> EmptySummary,
                                              group |-> g])]

\* One iteration of the group loop (lines 271-341).
ServeGroup(state, group, g, start, end, smpl, pcts) ==
    LET scaled == ScaleLoop(state.plotSeries, group.Series, Len(group.Series))
        groupSeries == GroupSeries(scaled, group.Series)
        after == [state EXCEPT !.plotSeries = scaled]
        cons == ConsolidateSeries(groupSeries, start, end, smpl, ConsolidateAverage, 0)
        oper == IF group.Type = OperTypeAverage THEN AverageSeries(cons.series)
                ELSE SumSeries(cons.series)
        operPlots == IF group.Scale # 0 THEN Scale(oper.series.Plots, Real(group.Scale))
                     ELSE oper.series.Plots
        sum == Summarize([oper.series EXCEPT !.Plots = operPlots], pcts)
        down == [i \in DOMAIN groupSeries |->
                    Downsample(groupSeries[i], start, end, smpl, ConsolidateAverage, 0)]
    IN  IF group.Type \in {OperTypeAverage, OperTypeSum}
        THEN IF cons.status = "panic" THEN [after EXCEPT !.status = "panic"]
             ELSE IF cons.status = "error" THEN after
             ELSE IF oper.status = "panic" THEN [after EXCEPT !.status = "panic"]
             ELSE IF oper.status = "error" THEN after
             ELSE IF sum.status # "ok" THEN [after EXCEPT !.status = "panic"]
             ELSE [after EXCEPT
                      !.response = Append(@, [Name |-> oper.series.Name, alias |-> "",
                                              Plots |-> operPlots, Summary |-> sum.Summary,
                                              group |-> g])]
        ELSE IF \E i \in DOMAIN down : down[i].status = "panic"
             THEN [after EXCEPT !.status = "panic"]
             ELSE SummarizeLoop(after, group.Series, pcts, g, Len(group.Series))

RECURSIVE GroupLoop(_, _, _, _, _, _, _)
GroupLoop(state, g, n, start, end, smpl, pcts) ==
    IF n = 0 THEN state
    ELSE LET before == GroupLoop(state, g, n - 1, start, end, smpl, pcts)
         IN  IF before.status # "ok" THEN before
             ELSE ServeGroup(before, g[n], n, start, end, smpl, pcts)

\* The response as served at line 343: an entry of a NONE group presents the
\* Plots array and Summary map it shares with plotSeries, as they are then.
Serialize(response, plotSeries) ==
    [i \in DOMAIN response |->
        IF response[i].alias = "" THEN response[i]
        ELSE [response[i] EXCEPT !.Plots = plotSeries[response[i].alias].Plots,
                                 !.Summary = plotSeries[response[i].alias].Summary]]

\* serveGraphPlots from line 224 on, for a parsed request and a graph: the
\* status served ("error": 500, "empty": no data, "ok": the response,
\* "panic": the handler panicked and nothing is served), whether the loop
\* of lines 242-251 ran to its end, the queries prepared, the calls and map
\* assignments made and the response series.
serveGraphPlots(g, start, end, smpl, pcts, order, answers) ==
    LET prep == prepareProviderQueries(g)
        exec == ExecuteLoop(prep.queries, order, answers, Len(order))
        done == GroupLoop([status |-> "ok", plotSeries |-> exec.plotSeries, response |-> <<>>],
                          g, Len(g), start, end, smpl, pcts)
        base == [status |-> "ok", dispatched |-> prep.status = "ok" /\ exec.status = "ok",
                 queries |-> prep.queries, calls |-> exec.calls,
                 writes |-> exec.writes, plotSeries |-> exec.plotSeries, response |-> <<>>]
    IN  IF prep.status # "ok" THEN [base EXCEPT !.status = "error"]
        ELSE IF exec.status # "ok" THEN [base EXCEPT !.status = "panic"]
        ELSE IF DOMAIN exec.plotSeries = {} THEN [base EXCEPT !.status = "empty"]
        ELSE IF done.status # "ok" THEN [base EXCEPT !.status = "panic"]
        ELSE [base EXCEPT !.response = Serialize(done.response, done.plotSeries)]

(***************************************************************************)
(* Server (library_plot.go) and RRD backend (rrdGetData): plotPrepareQuery *)
(* and plotHandle, which serve the same graphs through one backend query   *)
(* per group.  The groups of the graph are the groups of one stack.        *)
(***************************************************************************)
\* server.Catalog.Origins[origin].Backend
OriginBackend(origin) == OriginConnector(origin)

NilMetric == [ref |-> 0, idx |-> 0]

NoBackend == ""

\* The SerieQuery entries appended for one reference (lines 225-270): one
\* per expanded pair, found or not; named "<name>-<index>" for the pairs of
\* a metric group and "<name>" otherwise.
SerieQueries(ref, k) ==
    [j \in DOMAIN ref.Metrics |->
        [Name |-> IF ref.MetricGroup THEN ref.Name \o "-" \o ToString(j - 1) ELSE ref.Name,
         Metric |-> IF ref.Metrics[j] THEN [ref |-> k, idx |-> j] ELSE NilMetric]]

\* plotPrepareQuery after the first n references of the group, `first` being
\* the position of the group's first reference among those of the graph.
RECURSIVE PrepareQueryLoop(_, _, _)
PrepareQueryLoop(group, first, n) ==
    IF n = 0
    THEN [status |-> "ok", error |-> "", backend |-> NoBackend,
          query |-> [Name |-> group.Name, Type |-> group.Type, Series |-> <<>>]]
    ELSE LET before == PrepareQueryLoop(group, first, n - 1)
             ref == group.Series[n]
         IN  IF before.status # "ok" THEN before
             ELSE IF ref.Origin \notin CatalogOrigins
             THEN [before EXCEPT !.status = "error", !.error = "unknown serie origin"]
             ELSE IF before.backend # NoBackend /\ before.backend # OriginBackend(ref.Origin)
             THEN [before EXCEPT !.status = "error", !.error = "backends differ between series"]
             ELSE [before EXCEPT
                      !.backend = OriginBackend(ref.Origin),
                      !.query.Series = @ \o SerieQueries(ref, first + n - 1)]

plotPrepareQuery(group, first) ==
    LET r == PrepareQueryLoop(group, first, Len(group.Series))
    IN  IF r.status = "ok" /\ r.query.Series = <<>>
        THEN [r EXCEPT !.status = "error", !.error = "no serie defined"]
        ELSE r

\* rrdGetData, type NONE (lines 186-250): the names given to the first n
\* series of the query, a series without metric being skipped.
RECURSIVE rrdSerieNames(_, _)
rrdSerieNames(query, n) ==
    IF n = 0 THEN <<>>
    ELSE LET before == rrdSerieNames(query, n - 1)
             serie == query.Series[n]
         IN  IF serie.Metric = NilMetric THEN before
             ELSE Append(before, IF Len(query.Series) > 1
                                 THEN serie.Name \o "-" \o ToString(Len(before))
                                 ELSE serie.Name)

\* rrdGetData: the keys of the result map, one per series of a NONE query
\* (also of a query of a single series, lines 180-182) and the name of the
\* query for AVERAGE and SUM.
rrdGetData(query) ==
    IF query.Type = OperTypeNone \/ Len(query.Series) = 1
    THEN {rrdSerieNames(query, Len(query.Series))[i]
             : i \in DOMAIN rrdSerieNames(query, Len(query.Series))}
    ELSE {query.Name}

\* The position of the first reference of group n among those of the graph.
FirstRef(g, n) == Len(GraphSeries(SubSeq(g, 1, n - 1))) + 1

\* plotHandle from line 108 on, after the first n groups: failed[n] tells
\* whether the backend fails for group n (rrd export or graph error) and
\* orders[n] is the iteration order of its result map; any error ends the
\* request (lines 110-122).
RECURSIVE HandleLoop(_, _, _, _)
HandleLoop(g, failed, orders, n) ==
    IF n = 0 THEN [status |-> "ok", error |-> "", calls |-> <<>>, response |-> <<>>]
    ELSE LET before == HandleLoop(g, failed, orders, n - 1)
             prep == plotPrepareQuery(g[n], FirstRef(g, n))
             called == [before EXCEPT
                           !.calls = Append(@, [connector |-> prep.backend, query |-> prep.query])]
         IN  IF before.status # "ok" THEN before
             ELSE IF prep.status # "ok"
             THEN [before EXCEPT !.status = "error", !.error = prep.error]
             ELSE IF failed[n]
             THEN [called EXCEPT !.status = "error", !.error = "backend error"]
             ELSE [called EXCEPT
                      !.response = @ \o [i \in DOMAIN orders[n] |->
                                            [Name |-> orders[n][i], group |-> n]]]

\* plotHandle: the response is assembled (lines 155-184) only when every
\* group was prepared and answered.
plotHandle(g, failed, orders) ==
    LET r == HandleLoop(g, failed, orders, Len(g))
    IN  IF r.status = "ok" THEN r ELSE [r EXCEPT !.response = <<>>]

(***************************************************************************)
(* InfluxDB connector: GetPlots.  A query is the type of its group and the *)
(* metric names of the group's series; queryResult is what the InfluxDB    *)
(* client returns, one series of points per entry.                         *)
(***************************************************************************)
\* lines 106-121: the series built from the first n entries of queryResult;
\* query.Group.Series[i] panics for an entry beyond the series of the group
\* and the Step division panics when query.Sample is zero.
RECURSIVE InfluxDBSeries(_, _, _, _)
InfluxDBSeries(q, queryResult, smpl, n) ==
    IF n = 0 THEN [status |-> "ok", series |-> <<>>]
    ELSE LET before == InfluxDBSeries(q, queryResult, smpl, n - 1)
         IN  IF before.status # "ok" THEN before
             ELSE IF n > Len(q.Series) \/ smpl = 0 THEN [before EXCEPT !.status = "panic"]
             ELSE [before EXCEPT
                      !.series = Append(@, Series(q.Series[n], queryResult[n].Plots))]

\* InfluxDBConnector.GetPlots: failed tells whether client.Query returns an
\* error.  For SUM and AVERAGE the series are consolidated and combined and
\* the single combined series is returned (lines 123-158).
InfluxDBGetPlots(q, failed, queryResult, start, end, smpl) ==
    LET built == InfluxDBSeries(q, queryResult, smpl, Len(queryResult))
        cons == ConsolidateSeries(built.series, start, end, smpl, ConsolidateAverage, 0)
        oper == IF q.Type = OperTypeSum THEN SumSeries(cons.series)
                ELSE AverageSeries(cons.series)
    IN  IF failed THEN [status |-> "error", series |-> <<>>]
        ELSE IF built.status # "ok" THEN [status |-> "panic", series |-> <<>>]
        ELSE IF q.Type \in {OperTypeSum, OperTypeAverage}
        THEN IF cons.status # "ok" THEN [status |-> cons.status, series |-> <<>>]
             ELSE IF oper.status # "ok" THEN [status |-> oper.status, series |-> <<>>]
             ELSE [status |-> "ok", series |-> <<oper.series>>]
        ELSE [status |-> "ok", series |-> built.series]

(***************************************************************************)
(* Inputs.                                                                 *)
(***************************************************************************)
SeqsUpTo(S, n) == UNION {[1..k -> S] : k \in 0..n}

NoResult == [status |-> "none"]

NoSeries == Series("", <<>>)

NoGraph == <<>>

NoRequest == [Time |-> 0, Range |-> 0, Sample |-> 0]

NoQuery == [Type |-> OperTypeNone, Series |-> <<>>]

\* Lists of at most two series holding at most n plots altogether.
SeriesLists(plots, n) ==
    {<<>>}
    \cup {<<Series("s1", p)>> : p \in SeqsUpTo(plots, n)}
    \cup UNION {{<<Series("s1", p), Series("s2", q)>> : q \in SeqsUpTo(plots, n - Len(p))}
                   : p \in SeqsUpTo(plots, n)}

(***************************************************************************)
(* Spec: ConsolidateSeries called on series whose plot times range over    *)
(* the whole time line, for every window, sample and consolidation type.   *)
(***************************************************************************)
TimedPlots == {Plot(t, Real(1)) : t \in 0..MaxTime}

Init ==
    /\ pc = "call"
    /\ plotReq = NoRequest
    /\ graph = NoGraph
    /\ plotQuery = NoQuery
    /\ seriesList \in SeriesLists(TimedPlots, MaxPlots)
    /\ startTime \in {0, 1}
    /\ endTime \in 0..MaxTime
    /\ sample \in -1..MaxSample
    /\ consolidationType \in ConsolidationTypes
    /\ operType = OperTypeNone
    /\ series = NoSeries
    /\ percentiles = <<>>
    /\ result = NoResult

\* The conversion outcomes the call can depend on: the int64 conversion is
\* unrepresentable only when the step is zero.
Conversions ==
    IF sample # 0 /\ seriesList # <<>>
          /\ Step(startTime, endTime, EffectiveSample(seriesList, sample)) = 0
    THEN ImplementationDependent ELSE {0}

ConsolidateSeriesCall ==
    /\ pc = "call"
    /\ \E conv \in Conversions :
         result' = ConsolidateSeries(seriesList, startTime, endTime, sample,
                                     consolidationType, conv)
    /\ pc' = "done"
    /\ UNCHANGED <<plotReq, graph, plotQuery, seriesList, startTime, endTime, sample,
                   consolidationType, operType, series, percentiles>>

Next == ConsolidateSeriesCall

Spec == Init /\ [][Next]_vars

(***************************************************************************)
(* Properties of ConsolidateSeries (Spec).                                 *)
(***************************************************************************)
Done == pc = "done"

Returned == Done /\ result.status = "ok"

Count(seq, x) == Cardinality({k \in DOMAIN seq : seq[k] = x})

\* The largest plot count among the input series.
InputMaxLen ==
    IF seriesList = <<>> THEN 0
    ELSE CHOOSE n \in {Len(seriesList[i].Plots) : i \in DOMAIN seriesList} :
            \A i \in DOMAIN seriesList : Len(seriesList[i].Plots) <= n

\* C1: every call with sample <= 0 or with an empty seriesList returns an
\* error; no call goes on to allocate buckets with a non-positive sample.
C1_NonPositiveSampleRejected ==
    (Done /\ (sample <= 0 \/ Len(seriesList) = 0)) => result.status = "error"

\* C2 as stated: one output series per input series, each with `sample`
\* plots when sample <= maxLen and with maxLen plots otherwise, also when
\* every input series has zero plots.
C2_LengthSampleOrMaxLen ==
    Returned =>
        /\ Len(result.series) = Len(seriesList)
        /\ \A i \in DOMAIN result.series :
              Len(result.series[i].Plots) =
                  IF sample <= InputMaxLen THEN sample ELSE InputMaxLen

\* C2 amended: one output series per input series, in the same order, each
\* with maxLen plots when 0 < maxLen < sample and with `sample` plots
\* otherwise (so also when every input series has zero plots).
C2_BucketCount ==
    Returned =>
        /\ Len(result.series) = Len(seriesList)
        /\ \A i \in DOMAIN result.series :
              /\ Len(result.series[i].Plots) =
                    IF 0 < InputMaxLen /\ InputMaxLen < sample THEN InputMaxLen ELSE sample
              /\ \A b \in DOMAIN result.series[i].Plots :
                    /\ \A k \in DOMAIN result.buckets[i][b].plots :
                          Count(seriesList[i].Plots, result.buckets[i][b].plots[k]) > 0
                    /\ IsNaN(result.series[i].Plots[b].Value)
                          <=> result.buckets[i][b].plots = <<>>

C2_Witness ==
    /\ Returned
    /\ Len(seriesList) = 2
    /\ seriesList[1].Plots # seriesList[2].Plots
    /\ InputMaxLen < sample
    /\ \E b \in DOMAIN result.series[2].Plots : ~IsNaN(result.series[2].Plots[b].Value)

C2_WitnessNoPlots ==
    /\ Returned
    /\ InputMaxLen = 0
    /\ Len(result.series[1].Plots) = sample

\* C3: with step = (endTime - startTime) / sample > 0 (sample being the
\* effective bucket count), a plot with startTime <= t <= endTime and
\* floor((t - startTime) / step) < sample is a member of the bucket with that
\* index and of no other; every other plot is a member of no bucket.
ClaimStep == (endTime - startTime) \div result.sample

ClaimIndex(plot) == (plot.Time - startTime) \div ClaimStep

Eligible(plot) ==
    /\ startTime <= plot.Time
    /\ plot.Time <= endTime
    /\ ClaimIndex(plot) < result.sample

C3_BucketPartition ==
    (Returned /\ ClaimStep > 0) =>
        \A i \in DOMAIN seriesList :
            \A k \in DOMAIN seriesList[i].Plots :
                LET plot == seriesList[i].Plots[k]
                IN  \A b \in 1..result.sample :
                        Count(result.buckets[i][b].plots, plot) =
                            IF Eligible(plot) /\ b = ClaimIndex(plot) + 1
                            THEN Count(seriesList[i].Plots, plot) ELSE 0

\* A plot in the tail between startTime + sample*step and endTime is dropped
\* while another plot of the series lands in the last bucket.
C3_Witness ==
    /\ Returned
    /\ ClaimStep > 0
    /\ \E k \in DOMAIN seriesList[1].Plots :
          LET plot == seriesList[1].Plots[k]
          IN  /\ startTime + result.sample * ClaimStep <= plot.Time
              /\ plot.Time < endTime
    /\ result.buckets[1][result.sample].plots # <<>>

(***************************************************************************)
(* SpecBucket: ConsolidateSeries called on one series whose plots carry    *)
(* NaN and real values in every physical order, so that the buckets it     *)
(* builds hold every mix of members; the scenario of four plots valued     *)
(* 1,2,3,4 over [t0,t4) is one of the inputs.                              *)
(***************************************************************************)
BucketPlots == {Plot(t, v) : t \in 0..(MaxTime - 1), v \in {NaN, Real(1), Real(2)}}

AverageScenario ==
    <<Series("s1", <<Plot(0, Real(1)), Plot(1, Real(2)), Plot(2, Real(3)), Plot(3, Real(4))>>)>>

InitBucket ==
    /\ pc = "call"
    /\ plotReq = NoRequest
    /\ graph = NoGraph
    /\ plotQuery = NoQuery
    /\ \/ /\ seriesList \in {<<Series("s1", p)>> : p \in SeqsUpTo(BucketPlots, MaxBucket)}
          /\ endTime = MaxTime
       \/ /\ seriesList = AverageScenario
          /\ endTime = 4
    /\ startTime = 0
    /\ sample \in {1, 2}
    /\ consolidationType \in ConsolidationTypes
    /\ operType = OperTypeNone
    /\ series = NoSeries
    /\ percentiles = <<>>
    /\ result = NoResult

SpecBucket == InitBucket /\ [][Next]_vars

\* The buckets built by the call, as <<series index, bucket index>> pairs.
Buckets == {ib \in (DOMAIN result.buckets) \X (1..result.sample) : TRUE}

Members(ib) == result.buckets[ib[1]][ib[2]].plots

Output(ib) == result.series[ib[1]].Plots[ib[2]]

RealMembers(ib) == {k \in DOMAIN Members(ib) : ~IsNaN(Members(ib)[k].Value)}

RECURSIVE NumSum(_, _)
NumSum(plots, ks) ==
    IF ks = {} THEN 0
    ELSE LET k == CHOOSE x \in ks : TRUE
         IN  plots[k].Value.num + NumSum(plots, ks \ {k})

\* C4: a non-empty bucket consolidated with AVERAGE yields the arithmetic
\* mean of its member values (members without NaN; NaN members are C5's
\* case), stamped with the midpoint between the first and the last member's
\* times, whole ticks, or with the member's own time when it is alone.
C4_AverageMeanMidpoint ==
    (Returned /\ consolidationType = ConsolidateAverage) =>
        \A ib \in Buckets :
            LET m == Members(ib)
                n == Len(m)
                out == Output(ib)
            IN  n > 0 =>
                  /\ RealMembers(ib) = DOMAIN m =>
                        /\ ~IsNaN(out.Value)
                        /\ out.Value.num * n = NumSum(m, DOMAIN m) * out.Value.den
                  /\ n = 1 => out.Time = m[1].Time
                  /\ Abs(2 * out.Time - (m[1].Time + m[n].Time)) <= 1
                  /\ \/ m[1].Time <= out.Time /\ out.Time <= m[n].Time
                     \/ m[n].Time <= out.Time /\ out.Time <= m[1].Time

\* The scenario: values 1,2,3,4 at t0..t3 in 2 buckets give 1.5 and 3.5.
C4_Witness ==
    /\ Returned
    /\ consolidationType = ConsolidateAverage
    /\ seriesList = AverageScenario
    /\ sample = 2
    /\ result.series[1].Plots = <<Plot(0, Rat(3, 2)), Plot(2, Rat(7, 2))>>

\* C5: under AVERAGE every bucket with at least one non-NaN member, whatever
\* NaN members it also holds, yields a real value within [min, max] of its
\* non-NaN members.
C5_AverageWithinBounds ==
    (Returned /\ consolidationType = ConsolidateAverage) =>
        \A ib \in Buckets :
            RealMembers(ib) # {} =>
                /\ ~IsNaN(Output(ib).Value)
                /\ \E k \in RealMembers(ib) : ValueLeq(Members(ib)[k].Value, Output(ib).Value)
                /\ \E k \in RealMembers(ib) : ValueLeq(Output(ib).Value, Members(ib)[k].Value)

\* C6: under MAX (resp. MIN) a bucket with at least one real member yields a
\* member plot whose value is real and not below (resp. above) any real
\* member, for every order of NaN and real members.
C6_MaxMinIgnoreNaN ==
    (Returned /\ consolidationType \in {ConsolidateMax, ConsolidateMin}) =>
        \A ib \in Buckets :
            RealMembers(ib) # {} =>
                /\ Output(ib) \in {Members(ib)[k] : k \in RealMembers(ib)}
                /\ \A k \in RealMembers(ib) :
                      IF consolidationType = ConsolidateMax
                      THEN ValueLeq(Members(ib)[k].Value, Output(ib).Value)
                      ELSE ValueLeq(Output(ib).Value, Members(ib)[k].Value)

\* A MAX bucket NaN, 1, 2 or NaN, 2, NaN ...: a NaN first, a real after it
\* and a different member last.
C6_Witness ==
    /\ Returned
    /\ consolidationType = ConsolidateMax
    /\ \E ib \in Buckets :
          /\ Len(Members(ib)) = 3
          /\ IsNaN(Members(ib)[1].Value)
          /\ Members(ib)[2].Value = Real(2)
          /\ IsNaN(Members(ib)[3].Value)
          /\ Output(ib) = Members(ib)[2]

C6_WitnessMin ==
    /\ Returned
    /\ consolidationType = ConsolidateMin
    /\ \E ib \in Buckets :
          /\ Len(Members(ib)) = 3
          /\ Members(ib)[1].Value = Real(2)
          /\ IsNaN(Members(ib)[2].Value)
          /\ Members(ib)[3].Value = Real(1)
          /\ Output(ib) = Members(ib)[3]

\* C7: an empty bucket yields {NaN, bucket start} for every consolidation
\* type, the bucket start being startTime + index * step, and a bucket whose
\* members are all NaN yields NaN under AVERAGE.
C7_NoDataIsNaN ==
    Returned =>
        \A ib \in Buckets :
            /\ Members(ib) = <<>> =>
                  Output(ib) = [Time |-> startTime + (ib[2] - 1) * ClaimStep, Value |-> NaN]
            /\ (consolidationType = ConsolidateAverage /\ RealMembers(ib) = {}) =>
                  IsNaN(Output(ib).Value)

C7_Witness ==
    /\ Returned
    /\ consolidationType = ConsolidateAverage
    /\ \E ib \in Buckets : Len(Members(ib)) = 2 /\ RealMembers(ib) = {}
    /\ \E ib \in Buckets : Members(ib) = <<>> /\ ib[2] = 2

(***************************************************************************)
(* SpecOper: AverageSeries / SumSeries called on lists of at most two      *)
(* series of any lengths, each on its own time base, and on the scenario   *)
(* [1, NaN, 3] + [NaN, 2, 3].                                              *)
(***************************************************************************)
OperInputs ==
    {Series("s", [i \in 1..n |-> Plot(base + i, vs[i])]) :
        <<base, n, vs>> \in
            UNION {{<<b, m, w>> : b \in {0, 1}, w \in [1..m -> {NaN, Real(1), Real(2)}]}
                      : m \in 0..MaxLen}}

SumScenario ==
    <<Series("s1", <<Plot(1, Real(1)), Plot(2, NaN), Plot(3, Real(3))>>),
      Series("s2", <<Plot(1, NaN), Plot(2, Real(2)), Plot(3, Real(3))>>)>>

InitOper ==
    /\ pc = "call"
    /\ plotReq = NoRequest
    /\ graph = NoGraph
    /\ plotQuery = NoQuery
    /\ seriesList \in {<<>>, SumScenario}
                      \cup {<<a>> : a \in OperInputs}
                      \cup {<<a, b>> : a \in OperInputs, b \in OperInputs}
    /\ operType \in {OperTypeAverage, OperTypeSum}
    /\ startTime = 0
    /\ endTime = 0
    /\ sample = 0
    /\ consolidationType = ConsolidateAverage
    /\ series = NoSeries
    /\ percentiles = <<>>
    /\ result = NoResult

AverageSeriesCall ==
    /\ pc = "call"
    /\ operType = OperTypeAverage
    /\ result' = AverageSeries(seriesList)
    /\ pc' = "done"
    /\ UNCHANGED <<plotReq, graph, plotQuery, seriesList, startTime, endTime, sample,
                   consolidationType, operType, series, percentiles>>

SumSeriesCall ==
    /\ pc = "call"
    /\ operType = OperTypeSum
    /\ result' = SumSeries(seriesList)
    /\ pc' = "done"
    /\ UNCHANGED <<plotReq, graph, plotQuery, seriesList, startTime, endTime, sample,
                   consolidationType, operType, series, percentiles>>

NextOper == AverageSeriesCall \/ SumSeriesCall

SpecOper == InitOper /\ [][NextOper]_vars

EqualLength == \A n \in DOMAIN seriesList : Len(seriesList[n].Plots) = Len(seriesList[1].Plots)

Contributors(i) == {n \in DOMAIN seriesList : ~IsNaN(seriesList[n].Plots[i].Value)}

RECURSIVE ContributorSum(_, _)
ContributorSum(i, ns) ==
    IF ns = {} THEN 0
    ELSE LET n == CHOOSE x \in ns : TRUE
         IN  seriesList[n].Plots[i].Value.num + ContributorSum(i, ns \ {n})

\* C8: for equal-length inputs SumSeries/AverageSeries give at each index i
\* NaN when no series has a non-NaN value at i, otherwise the sum of the
\* non-NaN values (Sum) or that sum divided by the number n of contributors
\* (Average), at the first series' time; SumSeries([s]) is s pointwise for a
\* NaN-free s.
C8_OperPointwise ==
    (Returned /\ EqualLength) =>
        /\ Len(result.series.Plots) = Len(seriesList[1].Plots)
        /\ \A i \in DOMAIN result.series.Plots :
              LET out == result.series.Plots[i]
                  n == Cardinality(Contributors(i))
                  total == ContributorSum(i, Contributors(i))
              IN  /\ out.Time = seriesList[1].Plots[i].Time
                  /\ n = 0 => IsNaN(out.Value)
                  /\ n > 0 =>
                        /\ ~IsNaN(out.Value)
                        /\ IF operType = OperTypeSum
                           THEN out.Value.num = total * out.Value.den
                           ELSE out.Value.num * n = total * out.Value.den
        /\ (operType = OperTypeSum /\ Len(seriesList) = 1
              /\ \A i \in DOMAIN seriesList[1].Plots : ~IsNaN(seriesList[1].Plots[i].Value))
           => result.series.Plots = seriesList[1].Plots

\* [1, NaN, 3] and [NaN, 2, 3] sum to [1, 2, 6].
C8_Witness ==
    /\ Returned
    /\ operType = OperTypeSum
    /\ seriesList = SumScenario
    /\ result.series.Plots = <<Plot(1, Real(1)), Plot(2, Real(2)), Plot(3, Real(6))>>

C8_WitnessAverage ==
    /\ Returned
    /\ operType = OperTypeAverage
    /\ Len(seriesList) = 2
    /\ EqualLength
    /\ \E i \in DOMAIN result.series.Plots :
          Cardinality(Contributors(i)) = 2 /\ result.series.Plots[i].Value = Rat(3, 2)
    /\ \E i \in DOMAIN result.series.Plots : Cardinality(Contributors(i)) = 0

(***************************************************************************)
(* SpecSummary: Summarize / Percentiles called on one series with negative *)
(* and positive values and NaN in every position, for lists of at most two *)
(* percentiles, and on the set 10,20,30,40.                                *)
(***************************************************************************)
SummaryInputs ==
    {Series("s", [i \in 1..Len(vs) |-> Plot(i, vs[i])]) :
        vs \in SeqsUpTo({NaN, Real(-2), Real(-1), Real(1)}, MaxLen)}

PercentileScenario ==
    Series("s", <<Plot(1, Real(10)), Plot(2, Real(20)), Plot(3, Real(30)), Plot(4, Real(40))>>)

PercentileInputs ==
    SeqsUpTo({Real(0), Real(25), Real(50), Real(100), Rat(125, 2), Rat(191, 2)}, 2)

InitSummary ==
    /\ pc = "call"
    /\ plotReq = NoRequest
    /\ graph = NoGraph
    /\ plotQuery = NoQuery
    /\ series \in SummaryInputs \cup {PercentileScenario}
    /\ percentiles \in PercentileInputs
    /\ seriesList = <<>>
    /\ startTime = 0
    /\ endTime = 0
    /\ sample = 0
    /\ consolidationType = ConsolidateAverage
    /\ operType = OperTypeNone
    /\ result = NoResult

SummarizeCall ==
    /\ pc = "call"
    /\ LET r == Summarize(series, percentiles)
       IN  /\ series' = [series EXCEPT !.Summary = r.Summary]
           /\ result' = [status |-> r.status]
    /\ pc' = "summarized"
    /\ UNCHANGED <<plotReq, graph, plotQuery, seriesList, startTime, endTime, sample,
                   consolidationType, operType, percentiles>>

PercentilesCall ==
    /\ pc = "call"
    /\ LET r == Percentiles(series, percentiles)
       IN  /\ series' = [series EXCEPT !.Summary = r.Summary]
           /\ result' = [status |-> r.status]
    /\ pc' = "percentiles"
    /\ UNCHANGED <<plotReq, graph, plotQuery, seriesList, startTime, endTime, sample,
                   consolidationType, operType, percentiles>>

\* The RRD backend preparing the summary requests of one item.
rrdSetGraphCall ==
    /\ pc = "call"
    /\ result' = [status |-> "ok", print |-> rrdSetGraph(percentiles)]
    /\ pc' = "rrd"
    /\ UNCHANGED <<plotReq, graph, plotQuery, seriesList, startTime, endTime, sample,
                   consolidationType, operType, series, percentiles>>

NextSummary == SummarizeCall \/ PercentilesCall \/ rrdSetGraphCall

SpecSummary == InitSummary /\ [][NextSummary]_vars

\* The non-NaN point values of the series.
PointValues == {series.Plots[i].Value : i \in {j \in DOMAIN series.Plots : ~IsNaN(series.Plots[j].Value)}}

Smallest == CHOOSE v \in PointValues : \A w \in PointValues : ValueLeq(v, w)

Largest == CHOOSE v \in PointValues : \A w \in PointValues : ValueLeq(w, v)

\* C9: after Summarize on a series with at least one non-NaN point,
\* summary["min"] is the smallest and summary["max"] the largest non-NaN
\* point value, whatever the signs of the values and the positions of NaN.
C9_SummaryMinMax ==
    (pc = "summarized" /\ PointValues # {}) =>
        /\ series.Summary["min"] = Smallest
        /\ series.Summary["max"] = Largest

\* The order statistics of the non-NaN values: OrderStat(k) is the k-th
\* smallest, counted with multiplicity.
NonNaNCount == Cardinality({j \in DOMAIN series.Plots : ~IsNaN(series.Plots[j].Value)})

OrderStat(k) ==
    CHOOSE v \in PointValues :
        /\ Cardinality({j \in DOMAIN series.Plots : ValueLess(series.Plots[j].Value, v)}) < k
        /\ Cardinality({j \in DOMAIN series.Plots : ValueLeq(series.Plots[j].Value, v)}) >= k

\* C10: for every requested percentile p in [0,100] and N >= 1 non-NaN
\* values, Percentiles stores under p's key the minimum if
\* rank = (p/100)*(N+1) <= 0, the maximum if rank - 1 >= N, and otherwise the
\* interpolation between the two order statistics bracketing rank; in every
\* case a value is stored and it lies between the minimum and the maximum.
C10_PercentileStored ==
    (pc = "percentiles" /\ NonNaNCount >= 1) =>
        \A n \in DOMAIN percentiles :
            LET p == percentiles[n]
                N == NonNaNCount
                key == PercentileString(p)
                \* rank = r / q with q = 100 * p.den
                r == p.num * (N + 1)
                q == 100 * p.den
                lo == r \div q
            IN  /\ key \in DOMAIN series.Summary
                /\ ValueLeq(Smallest, series.Summary[key])
                /\ ValueLeq(series.Summary[key], Largest)
                /\ r <= 0 => series.Summary[key] = Smallest
                /\ r - q >= N * q => series.Summary[key] = Largest
                /\ (q <= r /\ r < N * q) =>
                      series.Summary[key] =
                          ValueAdd(OrderStat(lo),
                                   ValueMul(Rat(r - lo * q, q),
                                            ValueSub(OrderStat(lo + 1), OrderStat(lo))))

\* C11: for a series with at least one non-NaN value Percentiles([0]) stores
\* the minimum non-NaN value and Percentiles([100]) the maximum non-NaN value
\* (also when both are requested in one call); for a series with no non-NaN
\* value no percentile key is written, whatever percentiles are requested.
C11_PercentileBoundary ==
    pc = "percentiles" =>
        /\ (PointValues # {} /\ percentiles # <<>>
              /\ \A n \in DOMAIN percentiles : percentiles[n] \in {Real(0), Real(100)}) =>
              /\ result.status = "ok"
              /\ DOMAIN series.Summary = {PercentileString(percentiles[n]) : n \in DOMAIN percentiles}
              /\ \A n \in DOMAIN percentiles :
                    /\ percentiles[n] = Real(0) => series.Summary["0th"] = Smallest
                    /\ percentiles[n] = Real(100) => series.Summary["100th"] = Largest
        /\ PointValues = {} => (result.status = "ok" /\ DOMAIN series.Summary = {})

\* Percentiles([100]) on a series holding a NaN and two different values.
C11_Witness ==
    /\ pc = "percentiles"
    /\ percentiles = <<Real(100)>>
    /\ NonNaNCount = 2
    /\ Len(series.Plots) = 3
    /\ Smallest # Largest
    /\ series.Summary = [k \in {"100th"} |-> Largest]

C11_WitnessMin ==
    /\ pc = "percentiles"
    /\ percentiles = <<Real(0)>>
    /\ NonNaNCount = 2
    /\ IsNaN(series.Plots[1].Value)
    /\ series.Summary = [k \in {"0th"} |-> Smallest]
    /\ Smallest # Largest

C11_WitnessNoValue ==
    /\ pc = "percentiles"
    /\ Len(percentiles) = 2
    /\ Len(series.Plots) = 2
    /\ PointValues = {}
    /\ series.Summary = EmptySummary

\* The form of a percentile key: "<p>th" without decimals for an integral p,
\* whole part, point and exactly two decimal digits otherwise.
KeyForm(key, p) ==
    IF p.den = 1 THEN key = ToString(p.num) \o "th"
    ELSE \E w \in {p.num \div p.den, (p.num \div p.den) + 1}, d1 \in 0..9, d2 \in 0..9 :
            key = ToString(w) \o "." \o ToString(d1) \o ToString(d2) \o "th"

StatKeys == {"min", "max", "avg", "last"}

\* C12: every percentile key written has the form "<p>th" of a requested
\* percentile p, without decimals when p is integral and with exactly two
\* decimal digits otherwise, in Series.Percentiles (alone or through
\* Summarize) as well as in the RRD backend's rrdSetGraph.
C12_PercentileKeyForm ==
    /\ pc \in {"percentiles", "summarized"} =>
          \A key \in (DOMAIN series.Summary) \ StatKeys :
              \E n \in DOMAIN percentiles : KeyForm(key, percentiles[n])
    /\ pc = "rrd" =>
          \A k \in DOMAIN result.print :
              result.print[k] \notin StatKeys =>
                  \E n \in DOMAIN percentiles : KeyForm(result.print[k], percentiles[n])

\* The RRD path alone keeps the form.
C12_rrdKeyForm ==
    pc = "rrd" =>
        /\ Len(result.print) = 4 + Len(percentiles)
        /\ \A n \in DOMAIN percentiles : KeyForm(result.print[4 + n], percentiles[n])

(***************************************************************************)
(* SpecServer: one plot request served for a graph of one or two series    *)
(* references, in one group or in two groups of the same type, whose       *)
(* references name the same or different series, origins of the same or    *)
(* of different connectors, or an origin the catalog does not know, and    *)
(* expand to metrics the catalog finds or not.                             *)
(***************************************************************************)
MaxMetrics == 2

\* The expansions of a reference: every metric found, or all but one.
Expansions ==
    UNION {{f \in [1..k -> BOOLEAN] : Cardinality({j \in 1..k : ~f[j]}) <= 1}
              : k \in 1..MaxMetrics}

FirstRefs == {SeriesRef("a", "o1", m, mg, sc) : m \in Expansions, mg \in BOOLEAN, sc \in {0, 2}}

SecondRefs ==
    {SeriesRef(n, o, m, FALSE, 0) : n \in {"a", "b"}, o \in CatalogOrigins, m \in Expansions}
    \cup {SeriesRef("b", "o3", <<TRUE>>, FALSE, 0)}

GroupTypes == {OperTypeNone, OperTypeAverage, OperTypeSum}

Graphs ==
    UNION {{<<OperGroup("g1", t, <<r1>>)>> : r1 \in FirstRefs}
           \cup {<<OperGroup("g1", t, <<r1, r2>>)>> : r1 \in FirstRefs, r2 \in SecondRefs}
           \cup {<<OperGroup("g1", t, <<r1>>), OperGroup("g2", t, <<r2>>)>>
                     : r1 \in FirstRefs, r2 \in SecondRefs}
              : t \in GroupTypes}

InitServer ==
    /\ pc = "call"
    /\ plotReq = NoRequest
    /\ graph \in Graphs
    /\ plotQuery = NoQuery
    /\ startTime = 0
    /\ endTime = MaxTime
    /\ sample = 2
    /\ percentiles = <<>>
    /\ seriesList = <<>>
    /\ consolidationType = ConsolidateAverage
    /\ operType = OperTypeNone
    /\ series = NoSeries
    /\ result = NoResult

\* The iteration orders of a map with the keys S.
Orders(S) == {o \in [1..Cardinality(S) -> S] : \A i, j \in DOMAIN o : o[i] = o[j] => i = j}

serveGraphPlotsCall ==
    /\ pc = "call"
    /\ LET queries == prepareProviderQueries(graph).queries
       IN  \E order \in Orders(DOMAIN queries) :
           \E answers \in {a \in [DOMAIN queries -> UNION {GetPlots(queries[c]) : c \in DOMAIN queries}] :
                              \A c \in DOMAIN queries : a[c] \in GetPlots(queries[c])} :
               result' = serveGraphPlots(graph, startTime, endTime, sample, percentiles,
                                         order, answers)
    /\ pc' = "served"
    /\ UNCHANGED <<plotReq, graph, plotQuery, seriesList, startTime, endTime, sample,
                   consolidationType, operType, series, percentiles>>

\* The result-map keys the backend returns for group n, if it is prepared.
ResultKeys(n) ==
    LET prep == plotPrepareQuery(graph[n], FirstRef(graph, n))
    IN  IF prep.status = "ok" THEN rrdGetData(prep.query) ELSE {}

plotHandleCall ==
    /\ pc = "call"
    /\ \E failed \in [DOMAIN graph -> BOOLEAN] :
       \E orders \in {o \in [DOMAIN graph -> UNION {Orders(ResultKeys(n)) : n \in DOMAIN graph}] :
                         \A n \in DOMAIN graph : o[n] \in Orders(ResultKeys(n))} :
           result' = plotHandle(graph, failed, orders)
    /\ pc' = "handled"
    /\ UNCHANGED <<plotReq, graph, plotQuery, seriesList, startTime, endTime, sample,
                   consolidationType, operType, series, percentiles>>

NextServer == serveGraphPlotsCall \/ plotHandleCall

SpecServer == InitServer /\ [][NextServer]_vars

(***************************************************************************)
(* Properties of the server (SpecServer).                                  *)
(***************************************************************************)
Refs == GraphSeries(graph)

\* The positions in Refs of the references of group n.
GroupRefs(n) == FirstRef(graph, n)..(FirstRef(graph, n) + Len(graph[n].Series) - 1)

\* The metrics the catalog resolves for reference k, and for a set of them.
ResolvedOf(k) ==
    IF Refs[k].Origin \in CatalogOrigins
    THEN {[ref |-> k, idx |-> j] : j \in {i \in DOMAIN Refs[k].Metrics : Refs[k].Metrics[i]}}
    ELSE {}

Resolved(ks) == UNION {ResolvedOf(k) : k \in ks}

\* The connector owning a resolved metric.
Owner(m) == IF Refs[m.ref].Origin = "o1" THEN "c1" ELSE "c2"

\* The metrics a call asks for.
Asked(call) ==
    IF pc = "served" THEN {call.query.Metrics[i] : i \in DOMAIN call.query.Metrics}
    ELSE {call.query.Series[i].Metric : i \in DOMAIN call.query.Series} \ {NilMetric}

\* C13: when the resolved metrics of one group are owned by more than one
\* connector, the request ends with an error of query preparation and no
\* call asks a connector for a metric of that group, in serveGraphPlots
\* (prepareProviderQueries) as well as in plotHandle (plotPrepareQuery).
C13_BackendConflict ==
    pc \in {"served", "handled"} =>
        \A n \in DOMAIN graph :
            Cardinality({Owner(m) : m \in Resolved(GroupRefs(n))}) > 1 =>
                /\ result.status = "error"
                /\ \A i \in DOMAIN result.calls :
                      Asked(result.calls[i]) \cap Resolved(GroupRefs(n)) = {}

\* plotPrepareQuery alone: a group of two backends is refused with
\* "backends differ between series" unless an earlier group ended the request.
C13_plotPrepareQuery ==
    pc = "handled" =>
        \A n \in DOMAIN graph :
            Cardinality({Owner(m) : m \in Resolved(GroupRefs(n))}) > 1 =>
                /\ result.status = "error"
                /\ Len(result.calls) < n
                /\ Len(result.calls) = n - 1 => result.error = "backends differ between series"

\* C14: in serveGraphPlots no connector is called twice, a call asks its
\* connector for all the resolved metrics it owns in the graph and for
\* nothing else, each once, and when the loop over the prepared queries runs
\* to its end every connector owning a resolved metric has been called: the
\* number of calls is the number of such connectors, whatever the number of
\* series and metrics.
C14_OneCallPerConnector ==
    pc = "served" =>
        /\ \A i, j \in DOMAIN result.calls :
              result.calls[i].connector = result.calls[j].connector => i = j
        /\ \A i \in DOMAIN result.calls :
              LET call == result.calls[i]
              IN  /\ Asked(call) = {m \in Resolved(DOMAIN Refs) : Owner(m) = call.connector}
                  /\ Len(call.query.Metrics) = Cardinality(Asked(call))
                  /\ Asked(call) # {}
        /\ result.dispatched =>
              {result.calls[i].connector : i \in DOMAIN result.calls}
                  = {Owner(m) : m \in Resolved(DOMAIN Refs)}

\* Two references of two connectors expanding to three metrics: two calls.
C14_Witness ==
    /\ pc = "served"
    /\ result.dispatched
    /\ Len(Refs) = 2
    /\ Cardinality(Resolved(DOMAIN Refs)) = 3
    /\ Len(result.calls) = 2
    /\ \E i \in DOMAIN result.calls : Len(result.calls[i].query.Metrics) = 2

\* Three metrics of one connector, from two references: one call.
C14_WitnessOneCall ==
    /\ pc = "served"
    /\ result.dispatched
    /\ Len(Refs) = 2
    /\ Len(result.calls) = 1
    /\ Len(result.calls[1].query.Metrics) >= 3

\* The request was prepared (every origin known) and every connector either
\* failed or answered one series per metric asked.
WellAnswered ==
    /\ \A k \in DOMAIN Refs : Refs[k].Origin \in CatalogOrigins
    /\ \A i \in DOMAIN result.calls :
          \/ result.calls[i].answer.err
          \/ Len(result.calls[i].answer.plots) = Len(result.calls[i].query.Metrics)

\* A unit failed: a reference none of whose metrics the catalog finds, or a
\* connector answering with an error.
UnitFailure ==
    \/ \E k \in DOMAIN Refs : ResolvedOf(k) = {}
    \/ \E i \in DOMAIN result.calls : result.calls[i].answer.err

\* C15: when a reference has no metric in the catalog or a connector's
\* GetPlots returns an error while other series have data, serveGraphPlots
\* completes with a response that holds an entry for every group with data,
\* for every group type.
C15_PartialResult ==
    (pc = "served" /\ WellAnswered /\ UnitFailure /\ DOMAIN result.plotSeries # {}) =>
        /\ result.status = "ok"
        /\ \A n \in DOMAIN graph :
              (\E i \in DOMAIN graph[n].Series : graph[n].Series[i].Name \in DOMAIN result.plotSeries)
                  => \E e \in DOMAIN result.response : result.response[e].group = n

\* The groups of types AVERAGE and SUM alone do complete.
C15_OperGroups ==
    (pc = "served" /\ WellAnswered /\ UnitFailure /\ DOMAIN result.plotSeries # {}
        /\ \A n \in DOMAIN graph : graph[n].Type # OperTypeNone) =>
        /\ result.status = "ok"
        /\ Len(result.response) = Len(graph)

\* The resolved metric a returned series is the data of.
MetricOf(s) == CHOOSE m \in Resolved(DOMAIN Refs) : MetricName(m) = s.Name

\* C16: every series a connector returns is assigned in plotSeries to the
\* name of the reference whose metric it is the data of, whatever the order
\* and the number of the series returned.
C16_RemapByIdentity ==
    pc = "served" =>
        /\ \A w \in DOMAIN result.writes :
              /\ \E m \in Resolved(DOMAIN Refs) : MetricName(m) = result.writes[w].series.Name
              /\ result.writes[w].key = Refs[MetricOf(result.writes[w].series).ref].Name
        /\ \A i \in DOMAIN result.calls :
              \A k \in DOMAIN result.calls[i].answer.plots :
                  LET s == result.calls[i].answer.plots[k]
                  IN  (\E m \in Resolved(DOMAIN Refs) : MetricName(m) = s.Name) =>
                          \E w \in DOMAIN result.writes :
                              result.writes[w] = [key |-> Refs[MetricOf(s).ref].Name, series |-> s]

\* Answers in query order with one series per metric are re-mapped rightly.
C16_InQueryOrder ==
    (pc = "served"
        /\ \A i \in DOMAIN result.calls :
              result.calls[i].answer.plots
                  = [k \in DOMAIN result.calls[i].query.Metrics |->
                        RawSeries(result.calls[i].query.Metrics[k])]) =>
        \A w \in DOMAIN result.writes :
            result.writes[w].key = Refs[MetricOf(result.writes[w].series).ref].Name

\* The names a response presents for group n, in declaration order: in
\* serveGraphPlots one entry per reference (NONE) or one for the group; in
\* plotHandle the keys of the backend's result in the order of the query.
Declared(n) ==
    IF pc = "served"
    THEN IF graph[n].Type = OperTypeNone
         THEN [i \in DOMAIN graph[n].Series |-> graph[n].Series[i].Name]
         ELSE <<"">>
    ELSE LET query == plotPrepareQuery(graph[n], FirstRef(graph, n)).query
         IN  IF query.Type = OperTypeNone \/ Len(query.Series) = 1
             THEN rrdSerieNames(query, Len(query.Series))
             ELSE <<query.Name>>

\* The entries of the response for group n, in response order.
RECURSIVE EntriesOf(_, _)
EntriesOf(response, n) ==
    IF response = <<>> THEN <<>>
    ELSE (IF Head(response).group = n
          THEN <<IF pc = "served" THEN Head(response).alias ELSE Head(response).Name>>
          ELSE <<>>) \o EntriesOf(Tail(response), n)

\* C17: the series of a response appear group after group in declaration
\* order and, within a group, in the declaration order of its series,
\* whatever the order in which the connectors or backends are visited and
\* return their results, in serveGraphPlots and in plotHandle.
C17_DeclarationOrder ==
    (pc \in {"served", "handled"} /\ result.status = "ok") =>
        /\ \A i, j \in DOMAIN result.response :
              i < j => result.response[i].group <= result.response[j].group
        /\ \A n \in DOMAIN graph : EntriesOf(result.response, n) = Declared(n)

\* serveGraphPlots alone keeps the declaration order.
C17_serveGraphPlots ==
    pc = "served" => C17_DeclarationOrder

\* C18: during one request no key of plotSeries is assigned twice.
C18_WriteOncePerKey ==
    pc = "served" =>
        \A i, j \in DOMAIN result.writes :
            result.writes[i].key = result.writes[j].key => i = j

(***************************************************************************)
(* SpecConnector: InfluxDBConnector.GetPlots called for a group of up to   *)
(* two series of every type, the client returning an error or up to two    *)
(* series of points.                                                       *)
(***************************************************************************)
Queries ==
    {[Type |-> t, Series |-> m] : t \in GroupTypes, m \in {<<"m1">>, <<"m1", "m2">>}}

InitConnector ==
    /\ pc = "call"
    /\ plotReq = NoRequest
    /\ graph = NoGraph
    /\ plotQuery \in Queries
    /\ seriesList \in SeriesLists(TimedPlots, MaxPlots)
    /\ startTime = 0
    /\ endTime = MaxTime
    /\ sample \in 0..2
    /\ consolidationType = ConsolidateAverage
    /\ operType = OperTypeNone
    /\ series = NoSeries
    /\ percentiles = <<>>
    /\ result = NoResult

InfluxDBGetPlotsCall ==
    /\ pc = "call"
    /\ \E failed \in BOOLEAN :
          result' = InfluxDBGetPlots(plotQuery, failed, seriesList, startTime, endTime, sample)
    /\ pc' = "got"
    /\ UNCHANGED <<plotReq, graph, plotQuery, seriesList, startTime, endTime, sample,
                   consolidationType, operType, series, percentiles>>

NextConnector == InfluxDBGetPlotsCall

SpecConnector == InitConnector /\ [][NextConnector]_vars

\* C19: on success GetPlots returns exactly one series per series of the
\* query's group, named after it, for the group types NONE, SUM and AVERAGE.
C19_OneSeriesPerQuerySeries ==
    (pc = "got" /\ result.status = "ok") =>
        /\ Len(result.series) = Len(plotQuery.Series)
        /\ \A i \in DOMAIN result.series : result.series[i].Name = plotQuery.Series[i]

\* For NONE the series returned are as many as the client's, named after
\* the series of the group in query order.
C19_NoneFollowsClient ==
    (pc = "got" /\ result.status = "ok" /\ plotQuery.Type = OperTypeNone) =>
        /\ Len(result.series) = Len(seriesList)
        /\ \A i \in DOMAIN result.series : result.series[i].Name = plotQuery.Series[i]

\* C20: for every ConsolidateSeries call that returns with step > 0, every
\* consolidation type and every physical order of the input plots, the plot
\* of bucket i (0-based) of each output series has a time within
\* [startTime + i*step, startTime + (i+1)*step), so the times of an output
\* series are non-decreasing in plot index.
C20_OutputTimesOrdered ==
    (Returned /\ ClaimStep > 0) =>
        /\ \A ib \in Buckets :
              /\ startTime + (ib[2] - 1) * ClaimStep <= Output(ib).Time
              /\ Output(ib).Time < startTime + ib[2] * ClaimStep
        /\ \A i \in DOMAIN result.series :
              \A b, c \in DOMAIN result.series[i].Plots :
                  b < c => result.series[i].Plots[b].Time <= result.series[i].Plots[c].Time

\* Input plots in descending time order, the first two in the second bucket
\* and the last in the first, consolidated with AVERAGE.
C20_Witness ==
    /\ Returned
    /\ ClaimStep > 0
    /\ consolidationType = ConsolidateAverage
    /\ Len(seriesList[1].Plots) = 3
    /\ \A k \in 1..2 : seriesList[1].Plots[k].Time >= seriesList[1].Plots[k + 1].Time
    /\ seriesList[1].Plots[1].Time > seriesList[1].Plots[3].Time
    /\ Len(result.series[1].Plots) = 2
    /\ Len(Members(<<1, 1>>)) = 1
    /\ Len(Members(<<1, 2>>)) = 2
    /\ result.series[1].Plots[1].Time < result.series[1].Plots[2].Time

\* An empty bucket between two filled ones, under LAST.
C20_WitnessEmptyBucket ==
    /\ Returned
    /\ ClaimStep > 0
    /\ consolidationType = ConsolidateLast
    /\ Len(result.series[1].Plots) >= 2
    /\ Members(<<1, 1>>) = <<>>
    /\ Members(<<1, 2>>) # <<>>

(***************************************************************************)
(* SpecDownsample: Series.Downsample called on one series of up to         *)
(* MaxPlots plots, with a sample of 0..MaxSample, over an empty and a      *)
(* non-empty window, for every consolidation type.                         *)
(***************************************************************************)
InitDownsample ==
    /\ pc = "call"
    /\ plotReq = NoRequest
    /\ graph = NoGraph
    /\ plotQuery = NoQuery
    /\ seriesList = <<>>
    /\ series \in {Series("s1", p) : p \in SeqsUpTo(TimedPlots, MaxPlots)}
    /\ startTime = 0
    /\ endTime \in {0, MaxTime}
    /\ sample \in 0..MaxSample
    /\ consolidationType \in ConsolidationTypes
    /\ operType = OperTypeNone
    /\ percentiles = <<>>
    /\ result = NoResult

\* The conversion outcomes a Downsample call can depend on (see Conversions).
DownsampleConversions ==
    IF sample # 0 /\ Step(startTime, endTime, EffectiveSample(<<series>>, sample)) = 0
    THEN ImplementationDependent ELSE {0}

\* series.Downsample(startTime, endTime, sample, consolidationType): the
\* receiver is replaced by the consolidated series when the call returns.
DownsampleCall ==
    /\ pc = "call"
    /\ \E conv \in DownsampleConversions :
          /\ result' = Downsample(series, startTime, endTime, sample, consolidationType, conv)
          /\ series' = result'.series
    /\ pc' = "downsampled"
    /\ UNCHANGED <<plotReq, graph, plotQuery, seriesList, startTime, endTime, sample,
                   consolidationType, operType, percentiles>>

NextDownsample == DownsampleCall

SpecDownsample == InitDownsample /\ [][NextDownsample]_vars

\* C21: a Downsample call with sample = 0, whose consolidation is rejected
\* with an error, completes without failure and leaves the series as it was
\* (no caller of ConsolidateSeries drops the error and uses the absent
\* result).
C21_RejectedDownsampleCompletes ==
    (pc = "downsampled" /\ sample = 0) => result.status = "ok"

(***************************************************************************)
(* Claims on the plots and names of the response of serveGraphPlots.       *)
(***************************************************************************)
Served == pc = "served" /\ result.status = "ok"

\* C22: every response series of a group of type NONE is the downsampled
\* series: it has at most plotReq.Sample plots.
C22_NoneGroupDownsampled ==
    Served =>
        \A i \in DOMAIN result.response :
            graph[result.response[i].group].Type = OperTypeNone =>
                Len(result.response[i].Plots) <= sample

\* The response series of a SUM or AVERAGE group has one plot per bucket of
\* the requested window.
C22_OperGroupConsolidated ==
    Served =>
        \A i \in DOMAIN result.response :
            graph[result.response[i].group].Type # OperTypeNone =>
                /\ Len(result.response[i].Plots) = sample
                /\ \A k \in DOMAIN result.response[i].Plots :
                      result.response[i].Plots[k].Time
                          = startTime + (k - 1) * Step(startTime, endTime, sample)

(***************************************************************************)
(* The time window of a plots request: parsePlotRequest (part_001) and the *)
(* same computation at the head of plotHandle (library_plot.go).           *)
(*                                                                         *)
(* A request carries Time (0: not set, the zero time; -1: a text that is   *)
(* no RFC3339 time), Range and Sample.  A range is its sign prefix, the    *)
(* amount of time it denotes and whether TimeApplyRange can parse it.      *)
(***************************************************************************)
MaxRange == 2

defaultPlotSample == 400

Range(negative, amount, valid) == [negative |-> negative, amount |-> amount, valid |-> valid]

PlotRequest(time, range, smpl) == [Time |-> time, Range |-> range, Sample |-> smpl]

\* strings.HasPrefix(strings.Trim(plotReq.Range, " "), "-")
HasMinusPrefix(range) == range.negative

\* utils.TimeApplyRange(t, range): t shifted by the signed range, or an
\* error for a range it cannot parse ("-1h" gives refTime.Add(-1*time.Hour),
\* "2mo" gives refTime.AddDate(0, 2, 0)).
TimeApplyRange(t, range) ==
    IF ~range.valid THEN [err |-> TRUE, time |-> 0]
    ELSE [err |-> FALSE,
          time |-> IF range.negative THEN t - range.amount ELSE t + range.amount]

WindowError == [status |-> "error", startTime |-> 0, endTime |-> 0, Sample |-> 0]

\* Lines 453-463 of parsePlotRequest and 82-96 of plotHandle, after the
\* first if/else chain has set one end of the window: the missing end of
\* the window is the other end shifted by the range, a zero start time
\* being the sign that the start is the missing one.
ApplyRange(req, start, end) ==
    LET fromEnd == TimeApplyRange(end, req.Range)
        fromStart == TimeApplyRange(start, req.Range)
        smpl == IF req.Sample = 0 THEN defaultPlotSample ELSE req.Sample
    IN  IF start = 0
        THEN IF fromEnd.err THEN WindowError
             ELSE [status |-> "ok", startTime |-> fromEnd.time, endTime |-> end, Sample |-> smpl]
        ELSE IF fromStart.err THEN WindowError
             ELSE [status |-> "ok", startTime |-> start, endTime |-> fromStart.time,
                   Sample |-> smpl]

\* parsePlotRequest (lines 433-466): json.Unmarshal fails on a Time that is
\* no time; now is what time.Now() returns.
parsePlotRequest(req, now) ==
    IF req.Time = -1 THEN WindowError
    ELSE IF req.Time = 0 THEN ApplyRange(req, 0, now)
    ELSE IF HasMinusPrefix(req.Range) THEN ApplyRange(req, 0, req.Time)
    ELSE ApplyRange(req, req.Time, 0)

\* plotHandle, lines 66-96: Time is the request text, "" when not set, and
\* is parsed in the branch that uses it.
plotHandleWindow(req, now) ==
    IF req.Time = 0 THEN ApplyRange(req, 0, now)
    ELSE IF req.Time = -1 THEN WindowError
    ELSE IF HasMinusPrefix(req.Range) THEN ApplyRange(req, 0, req.Time)
    ELSE ApplyRange(req, req.Time, 0)

(***************************************************************************)
(* SpecRequest: a plots request for every Time (unset, unparsable, set),   *)
(* every range sign and amount up to MaxRange, parsable or not, with and   *)
(* without a sample, received at one of two instants.                      *)
(***************************************************************************)
Ranges == {Range(n, a, v) : n \in BOOLEAN, a \in 1..MaxRange, v \in BOOLEAN}

NowTimes == {MaxTime, MaxTime + 1}

InitRequest ==
    /\ pc = "call"
    /\ plotReq \in {PlotRequest(t, r, smpl) : t \in -1..MaxTime, r \in Ranges, smpl \in {0, 2}}
    /\ graph = NoGraph
    /\ plotQuery = NoQuery
    /\ seriesList = <<>>
    /\ startTime = 0
    /\ endTime = 0
    /\ sample = 0
    /\ consolidationType = ConsolidateAverage
    /\ operType = OperTypeNone
    /\ series = NoSeries
    /\ percentiles = <<>>
    /\ result = NoResult

\* parsePlotRequest: plotReq.startTime, plotReq.endTime and plotReq.Sample
\* are set when it returns without error.
parsePlotRequestCall ==
    /\ pc = "call"
    /\ \E now \in NowTimes :
          /\ result' = parsePlotRequest(plotReq, now)
          /\ IF result'.status = "ok"
             THEN /\ startTime' = result'.startTime
                  /\ endTime' = result'.endTime
                  /\ sample' = result'.Sample
             ELSE UNCHANGED <<startTime, endTime, sample>>
    /\ pc' = "parsed"
    /\ UNCHANGED <<plotReq, graph, plotQuery, seriesList, consolidationType, operType, series,
                   percentiles>>

\* plotHandle for a request whose graph has no group: the window is
\* computed (a failure is answered 400) and the empty graph is served.
plotHandleRequestCall ==
    /\ pc = "call"
    /\ \E now \in NowTimes :
          LET window == plotHandleWindow(plotReq, now)
              served == plotHandle(graph, <<>>, <<>>)
          IN  /\ result' = [window EXCEPT !.status = IF @ = "ok" THEN served.status ELSE @]
              /\ IF window.status = "ok"
                 THEN /\ startTime' = window.startTime
                      /\ endTime' = window.endTime
                      /\ sample' = window.Sample
                 ELSE UNCHANGED <<startTime, endTime, sample>>
    /\ pc' = "windowed"
    /\ UNCHANGED <<plotReq, graph, plotQuery, seriesList, consolidationType, operType, series,
                   percentiles>>

NextRequest == parsePlotRequestCall \/ plotHandleRequestCall

SpecRequest == InitRequest /\ [][NextRequest]_vars

WindowComputed == pc \in {"parsed", "windowed"} /\ result.status = "ok"

\* C23: after the window of a request is computed without error,
\* startTime <= endTime, whether Time is set or not and whatever the sign of
\* Range.
C23_WindowOrdered ==
    WindowComputed => startTime <= endTime

\* The window is ordered when the range is negative, and when Time is set.
C23_AnchoredWindowOrdered ==
    (WindowComputed /\ (plotReq.Time # 0 \/ HasMinusPrefix(plotReq.Range))) =>
        startTime <= endTime

(***************************************************************************)
(* Claims on the bucket index of ConsolidateSeries and on the lengths read *)
(* by operSeries.                                                          *)
(***************************************************************************)
Accepted == Done /\ sample > 0 /\ seriesList # <<>>

\* C24: for every call that ConsolidateSeries accepts (sample > 0, a
\* non-empty list), windows of zero length, windows shorter than `sample`
\* time units and windows with endTime < startTime included, the bucket
\* index of every retained plot is within [0, sample): the call returns.
C24_BucketIndexInRange ==
    Accepted => result.status = "ok"

\* With a step that is not zero, a negative one included, the accepted call
\* returns.
C24_NonZeroStep ==
    (Accepted /\ Step(startTime, endTime, EffectiveSample(seriesList, sample)) # 0) =>
        result.status = "ok"

\* C25: AverageSeries and SumSeries return, for every non-empty list, a
\* series with as many plots as the first input series, whether or not the
\* other series have as many plots as the first.
C25_OperLengthOfFirst ==
    (Done /\ seriesList # <<>>) =>
        /\ result.status = "ok"
        /\ Len(result.series.Plots) = Len(seriesList[1].Plots)

\* The call returns a series of the length of the first whenever no input
\* series is shorter than the first.
C25_NoShorterSeries ==
    (Done /\ seriesList # <<>>
       /\ \A n \in DOMAIN seriesList : Len(seriesList[n].Plots) >= Len(seriesList[1].Plots)) =>
        /\ result.status = "ok"
        /\ Len(result.series.Plots) = Len(seriesList[1].Plots)

(***************************************************************************)
(* Claims on the scale factors and the names of a served response.         *)
(***************************************************************************)
\* The plots the connectors returned for reference k, as stored in the
\* result-assembly map, multiplied once by the scale of that reference.
ScaledOnce(k) ==
    IF Refs[k].Scale # 0
    THEN Scale(result.plotSeries[Refs[k].Name].Plots, Real(Refs[k].Scale))
    ELSE result.plotSeries[Refs[k].Name].Plots

NoneGroupsOnly == \A n \in DOMAIN graph : graph[n].Type = OperTypeNone

\* C26: in the response of a graph of NONE groups the entry of each series
\* reference presents the connector-returned values multiplied by the scale
\* of that reference exactly once (NaN stays NaN): the scale of one
\* reference changes no other entry, also when one series name is
\* referenced more than once.
C26_ScaleOwnEntryOnly ==
    (Served /\ NoneGroupsOnly) =>
        /\ Len(result.response) = Len(Refs)
        /\ \A k \in DOMAIN result.response : result.response[k].Plots = ScaledOnce(k)

\* The same holds of the graphs whose references have distinct names.
C26_DistinctNames ==
    (Served /\ NoneGroupsOnly /\ \A j, k \in DOMAIN Refs : Refs[j].Name = Refs[k].Name => j = k) =>
        /\ Len(result.response) = Len(Refs)
        /\ \A k \in DOMAIN result.response : result.response[k].Plots = ScaledOnce(k)

\* C27: every series of a served response carries a non-empty name, the
\* series of a SUM or AVERAGE group included.
C27_ResponseNamed ==
    Served => \A i \in DOMAIN result.response : result.response[i].Name # ""

\* The series of the groups of type NONE carry the name the connector gave
\* them.
C27_NoneGroupNamed ==
    Served =>
        \A i \in DOMAIN result.response :
            graph[result.response[i].group].Type = OperTypeNone =>
                result.response[i].Name # ""

\* In plotHandle every series of the response is named, the series of a
\* SUM or AVERAGE group after its group.
C27_plotHandleNamed ==
    (pc = "handled" /\ result.status = "ok") =>
        \A i \in DOMAIN result.response : result.response[i].Name # ""
====
